---- MODULE Spec2Model ----
(***************************************************************************)
(* State-machine model of src/main.rs: the main thread (main, App::run,    *)
(* App::render), the sampler thread (handle_input_events), the key         *)
(* listener thread (handle_key_events) and the mpsc channel between them.  *)
(* Each action is one atomic step of one thread; steps of different        *)
(* threads interleave freely (the sleeps are not timed).                   *)
(***************************************************************************)
EXTENDS Integers, Sequences, FiniteSets, TLC

\* ---------------------------------------------------------------- bounds
\* Number of Event::Memory values the sampler may enqueue in one run.
MaxSamples == 2

\* ------------------------------------------------------------ input sets
\* Values sys.free_memory() may return (u64).
MemValues == {9, 2048}
\* crossterm KeyCode values the input source may deliver.
KeyCodes == { [tag |-> "Esc", ch |-> ""],
              [tag |-> "Char", ch |-> "q"],
              [tag |-> "Char", ch |-> "Q"],
              [tag |-> "Char", ch |-> "x"] }
\* crossterm KeyModifiers values.
KeyModifiers == {"NONE", "SHIFT"}
\* crossterm KeyEvent: the fields on_key_event can see.
KeyEvents == [code : KeyCodes, modifiers : KeyModifiers]

\* Option<T>: None is the empty sequence, Some(v) the one-element sequence.
None == << >>
Some(v) == << v >>

\* Filler for the key field of an event that carries no key.
NoKey == [code |-> [tag |-> "Null", ch |-> ""], modifiers |-> "NONE"]

\* enum Event { Input(KeyEvent), Memory(u64) }
Input(k) == [type |-> "Input", key |-> k, mem |-> 0]
Memory(v) == [type |-> "Memory", key |-> NoKey, mem |-> v]

VARIABLES
  mpc,         \* main thread: position in main / App::run / App::render
  spc,         \* sampler thread: position in handle_input_events
  lpc,         \* listener thread: position in handle_key_events
  chan,        \* events queued in the mpsc channel, oldest first
  rxAlive,     \* event_rx has not been dropped
  running,     \* App.running
  latest_mem,  \* App.latest_mem : Option<u64>
  free_memory, \* sampler local: the value about to be sent
  key_event,   \* listener local: the key event about to be sent
  frame,       \* what render put into the current frame buffer
  screen,      \* the last frame flushed to the terminal
  term,        \* terminal mode: "cooked" | "raw" | "restored"
  result,      \* what main returns: "none" | "Ok" | "Err" | "Panic"
  batch,       \* history: events received so far by the current/last drain
  preMetric,   \* history: latest_mem when the current/last drain began
  emitted,     \* history: Memory values successfully sent, in order
  folded,      \* history: Memory values folded into the App, in order
  ticks,       \* history: draws that reached render: "none" | "first" | "later"
  paints,      \* history: paints made by render: "none" | "first" | "later"
  initCount,   \* history: number of ratatui::init() calls that returned
  restoreCount \* history: number of ratatui::restore() calls

vars == << mpc, spc, lpc, chan, rxAlive, running, latest_mem, free_memory,
           key_event, frame, screen, term, result, batch, preMetric,
           emitted, folded, ticks, paints, initCount, restoreCount >>

appVars  == << running, latest_mem >>
mainVars == << mpc, running, latest_mem, frame, screen, term, result, batch,
               preMetric, folded, ticks, paints, initCount, restoreCount >>

\* How the histories ticks and paints count: none, the first, a later one.
NextCount(c) == IF c = "none" THEN "first" ELSE "later"

\* ------------------------------------------------------- pure functions
Digit(d) == CASE d = 0 -> "0" [] d = 1 -> "1" [] d = 2 -> "2" [] d = 3 -> "3"
              [] d = 4 -> "4" [] d = 5 -> "5" [] d = 6 -> "6" [] d = 7 -> "7"
              [] d = 8 -> "8" [] d = 9 -> "9"

\* u64::to_string: the decimal representation, most significant digit first.
RECURSIVE to_string(_)
to_string(n) ==
  IF n < 10 THEN Digit(n) ELSE to_string(n \div 10) \o Digit(n % 10)

\* A variant of IsQuitKey that only accepts unmodified keys.
IsQuitKeyNoModifiers(key) ==
  /\ key.modifiers = "NONE"
  /\ \/ key.code.tag = "Esc"
     \/ key.code.tag = "Char" /\ key.code.ch = "q"

\* A variant of on_key_event that matches the character case-insensitively.
on_key_event_AnyCase(run, key) ==
  IF \/ key.code.tag = "Esc"
     \/ key.code.tag = "Char" /\ key.code.ch \in {"q", "Q"}
    THEN FALSE ELSE run

\* App::on_key_event's match: (_, KeyCode::Esc | KeyCode::Char('q')).
IsQuitKey(key) ==
  \/ key.code.tag = "Esc"
  \/ key.code.tag = "Char" /\ key.code.ch = "q"

\* App::on_key_event + App::quit: the value of running after the key.
on_key_event(run, key) == IF IsQuitKey(key) THEN FALSE ELSE run

\* A variant of FoldEvent that keeps the first sample it sees.
FoldEventFirstWins(app, event) ==
  IF event.type = "Memory"
    THEN << app[1], IF app[2] = None THEN Some(event.mem) ELSE app[2] >>
    ELSE << on_key_event(app[1], event.key), app[2] >>

\* A variant of FoldEvent that ignores every event once running is false.
FoldEventStopsAfterQuit(app, event) ==
  IF ~app[1] THEN app
  ELSE IF event.type = "Memory"
    THEN << app[1], Some(event.mem) >>
    ELSE << on_key_event(app[1], event.key), app[2] >>

\* One iteration of the for loop in App::render: <<running, latest_mem>> after
\* the event.
FoldEvent(app, event) ==
  IF event.type = "Memory"
    THEN << app[1], Some(event.mem) >>
    ELSE << on_key_event(app[1], event.key), app[2] >>

\* The widget App::render puts into the frame for a given latest_mem.
render_memory(mem) == [title |-> "Memory Info", text |-> to_string(mem)]
\* lines 97-99: None is the blank frame, Some(panel) a frame holding the panel.
RenderFrame(lm) == IF lm = None THEN None ELSE Some(render_memory(lm[1]))

\* ----------------------------------------------------------------- init
Init ==
  /\ mpc = "spawn_sampler"
  /\ spc = "unborn"
  /\ lpc = "unborn"
  /\ chan = << >>
  /\ rxAlive = TRUE
  /\ running = TRUE
  /\ latest_mem = None
  /\ free_memory = 0
  /\ key_event = NoKey
  /\ frame = None
  /\ screen = None
  /\ term = "cooked"
  /\ result = "none"
  /\ batch = << >>
  /\ preMetric = None
  /\ emitted = << >>
  /\ folded = << >>
  /\ ticks = "none"
  /\ paints = "none"
  /\ initCount = 0
  /\ restoreCount = 0

\* The process is alive: once main has returned the runtime exits and every
\* thread stops.
ProcAlive == mpc # "exited"

\* ---------------------------------------------------------- main thread
\* main, lines 18-22: create the channel, spawn the sampler thread.
SpawnSampler ==
  /\ mpc = "spawn_sampler"
  /\ mpc' = "spawn_listener"
  /\ spc' = "sample"
  /\ UNCHANGED << lpc, chan, rxAlive, running, latest_mem, free_memory,
                  key_event, frame, screen, term, result, batch, preMetric,
                  emitted, ticks, paints, initCount, restoreCount,
                  folded >>

\* main, lines 23-26: spawn the key listener thread.
SpawnListener ==
  /\ mpc = "spawn_listener"
  /\ mpc' = "install"
  /\ lpc' = "read"
  /\ UNCHANGED << spc, chan, rxAlive, running, latest_mem, free_memory,
                  key_event, frame, screen, term, result, batch, preMetric,
                  emitted, ticks, paints, initCount, restoreCount,
                  folded >>

\* main, line 27: color_eyre::install()?. install fails only when a hook is
\* already installed; this is the program's only call, so it returns Ok.
Install ==
  /\ mpc = "install"
  /\ mpc' = "init"
  /\ UNCHANGED << spc, lpc, chan, rxAlive, running, latest_mem, free_memory,
                  key_event, frame, screen, term, result, batch, preMetric,
                  emitted, ticks, paints, initCount, restoreCount,
                  folded >>

\* main, line 28: ratatui::init() returned a terminal (raw mode entered).
InitOk ==
  /\ mpc = "init"
  /\ mpc' = "run"
  /\ term' = "raw"
  /\ initCount' = initCount + 1
  /\ UNCHANGED << spc, lpc, chan, rxAlive, running, latest_mem, free_memory,
                  key_event, frame, screen, result, batch, preMetric,
                  emitted, ticks, paints, restoreCount,
                  folded >>

\* main, line 28: ratatui::init() panics when the terminal cannot be set up;
\* main unwinds.
InitPanic ==
  /\ mpc = "init"
  /\ mpc' = "return"
  /\ result' = "Panic"
  /\ UNCHANGED << spc, lpc, chan, rxAlive, running, latest_mem, free_memory,
                  key_event, frame, screen, term, batch, preMetric,
                  emitted, ticks, paints, initCount, restoreCount,
                  folded >>

\* A variant of RunEnter that discards what was queued before the loop.
RunEnterDiscardsQueued ==
  /\ mpc = "run"
  /\ mpc' = "check"
  /\ running' = TRUE
  /\ latest_mem' = None
  /\ chan' = << >>
  /\ UNCHANGED << spc, lpc, rxAlive, free_memory, key_event, frame,
                  screen, term, result, batch, preMetric, emitted,
                  ticks, paints, initCount, restoreCount,
                  folded >>

\* main line 29, App::new (67-72) and the first statement of App::run (76).
RunEnter ==
  /\ mpc = "run"
  /\ mpc' = "check"
  /\ running' = TRUE
  /\ latest_mem' = None
  /\ UNCHANGED << spc, lpc, chan, rxAlive, free_memory, key_event, frame,
                  screen, term, result, batch, preMetric, emitted,
                  ticks, paints, initCount, restoreCount,
                  folded >>

\* A variant of LoopCheck that re-arms running on every iteration.
LoopCheckRearm ==
  /\ mpc = "check"
  /\ running' = TRUE
  /\ mpc' = "draw"
  /\ UNCHANGED << spc, lpc, chan, rxAlive, latest_mem, free_memory, key_event,
                  frame, screen, term, result, batch, preMetric, emitted,
                  ticks, paints, initCount, restoreCount,
                  folded >>

\* A variant of LoopCheck that tests the flag the wrong way round for exit:
\* the loop goes on whatever running is.
LoopCheckIgnoresFlag ==
  /\ mpc = "check"
  /\ mpc' = "draw"
  /\ UNCHANGED << spc, lpc, chan, rxAlive, running, latest_mem, free_memory,
                  key_event, frame, screen, term, result, batch, preMetric,
                  emitted, ticks, paints, initCount, restoreCount,
                  folded >>

\* App::run, line 77 and 81: while self.running { .. } Ok(()).
LoopCheck ==
  /\ mpc = "check"
  /\ IF running
       THEN mpc' = "draw" /\ result' = result
       ELSE mpc' = "restore" /\ result' = "Ok"
  /\ UNCHANGED << spc, lpc, chan, rxAlive, running, latest_mem, free_memory,
                  key_event, frame, screen, term, batch, preMetric,
                  emitted, ticks, paints, initCount, restoreCount,
                  folded >>

\* App::run, line 78: terminal.draw resizes the buffers and calls the render
\* closure; App::render begins its drain (line 86).
DrawBegin ==
  /\ mpc = "draw"
  /\ mpc' = "drain"
  /\ batch' = << >>
  /\ preMetric' = latest_mem
  /\ ticks' = NextCount(ticks)
  /\ UNCHANGED << spc, lpc, chan, rxAlive, running, latest_mem, free_memory,
                  key_event, frame, screen, term, result, emitted, paints,
                  initCount, restoreCount,
                  folded >>

\* App::run, line 78: terminal.draw fails before the render closure runs
\* (the backend cannot report its size); `?` returns the error.
DrawFailBefore ==
  /\ mpc = "draw"
  /\ mpc' = "restore"
  /\ result' = "Err"
  /\ UNCHANGED << spc, lpc, chan, rxAlive, running, latest_mem, free_memory,
                  key_event, frame, screen, term, batch, preMetric,
                  emitted, ticks, paints, initCount, restoreCount,
                  folded >>

\* A variant of DrainRecv that takes the newest queued event first.
DrainRecvNewestFirst ==
  /\ mpc = "drain"
  /\ chan # << >>
  /\ LET event == chan[Len(chan)]
         app   == FoldEvent(<< running, latest_mem >>, event)
     IN /\ running' = app[1]
        /\ latest_mem' = app[2]
        /\ batch' = Append(batch, event)
        /\ folded' = IF event.type = "Memory"
                     THEN Append(folded, event.mem) ELSE folded
  /\ chan' = SubSeq(chan, 1, Len(chan) - 1)
  /\ UNCHANGED << mpc, spc, lpc, rxAlive, free_memory, key_event, frame,
                  screen, term, result, preMetric, emitted, ticks,
                  paints, initCount, restoreCount >>

\* App::render, lines 86-91: try_iter yields the next queued event and the
\* loop body folds it into the App.
DrainRecv ==
  /\ mpc = "drain"
  /\ chan # << >>
  /\ LET event == Head(chan)
         app   == FoldEvent(<< running, latest_mem >>, event)
     IN /\ running' = app[1]
        /\ latest_mem' = app[2]
        /\ batch' = Append(batch, event)
        /\ folded' = IF event.type = "Memory"
                     THEN Append(folded, event.mem) ELSE folded
  /\ chan' = Tail(chan)
  /\ UNCHANGED << mpc, spc, lpc, rxAlive, free_memory, key_event, frame,
                  screen, term, result, preMetric, emitted, ticks,
                  paints, initCount, restoreCount >>

\* A variant of DrainEnd for a drain written with the blocking iterator
\* (iter instead of try_iter): on an empty channel it waits, and ends only
\* when the producers have dropped their senders.
DrainEndBlocking ==
  /\ mpc = "drain"
  /\ chan = << >>
  /\ spc = "done"
  /\ lpc \in {"done", "panicked_read", "panicked_send"}
  /\ mpc' = "paint"
  /\ UNCHANGED << spc, lpc, chan, rxAlive, running, latest_mem, free_memory,
                  key_event, frame, screen, term, result, batch, preMetric,
                  emitted, ticks, paints, initCount, restoreCount,
                  folded >>

\* App::render, line 86: try_recv finds the channel empty, try_iter ends.
DrainEnd ==
  /\ mpc = "drain"
  /\ chan = << >>
  /\ mpc' = "paint"
  /\ UNCHANGED << spc, lpc, chan, rxAlive, running, latest_mem, free_memory,
                  key_event, frame, screen, term, result, batch, preMetric,
                  emitted, ticks, paints, initCount, restoreCount,
                  folded >>

\* A variant of Paint that paints the state the tick started with.
PaintStale ==
  /\ mpc = "paint"
  /\ mpc' = "flush"
  /\ frame' = RenderFrame(preMetric)
  /\ paints' = NextCount(paints)
  /\ UNCHANGED << spc, lpc, chan, rxAlive, running, latest_mem, free_memory,
                  key_event, screen, term, result, batch, preMetric,
                  emitted, ticks, initCount, restoreCount,
                  folded >>

\* A variant of Paint that takes the sample out of latest_mem to show it.
PaintTakes ==
  /\ mpc = "paint"
  /\ mpc' = "flush"
  /\ frame' = RenderFrame(latest_mem)
  /\ latest_mem' = None
  /\ paints' = NextCount(paints)
  /\ UNCHANGED << spc, lpc, chan, rxAlive, running, free_memory,
                  key_event, screen, term, result, batch, preMetric,
                  emitted, ticks, initCount, restoreCount,
                  folded >>

\* App::render, lines 92-99: lay out the frame and, if latest_mem is Some,
\* render the memory panel into it.
Paint ==
  /\ mpc = "paint"
  /\ mpc' = "flush"
  /\ frame' = RenderFrame(latest_mem)
  /\ paints' = NextCount(paints)
  /\ UNCHANGED << spc, lpc, chan, rxAlive, running, latest_mem, free_memory,
                  key_event, screen, term, result, batch, preMetric,
                  emitted, ticks, initCount, restoreCount,
                  folded >>

\* A variant of FlushOk that forgets the sample once it has been displayed.
FlushOkClears ==
  /\ mpc = "flush"
  /\ mpc' = "sleep"
  /\ screen' = frame
  /\ latest_mem' = None
  /\ UNCHANGED << spc, lpc, chan, rxAlive, running, free_memory,
                  key_event, frame, term, result, batch, preMetric,
                  emitted, ticks, paints, initCount, restoreCount,
                  folded >>

\* App::run, line 78: terminal.draw flushes the frame to the terminal.
FlushOk ==
  /\ mpc = "flush"
  /\ mpc' = "sleep"
  /\ screen' = frame
  /\ UNCHANGED << spc, lpc, chan, rxAlive, running, latest_mem, free_memory,
                  key_event, frame, term, result, batch, preMetric,
                  emitted, ticks, paints, initCount, restoreCount,
                  folded >>

\* A variant of FlushFail for a main that propagates run's error with `?`
\* before it restores the terminal.
FlushFailNoRestore ==
  /\ mpc = "flush"
  /\ mpc' = "return"
  /\ result' = "Err"
  /\ UNCHANGED << spc, lpc, chan, rxAlive, running, latest_mem, free_memory,
                  key_event, frame, screen, term, batch, preMetric,
                  emitted, ticks, paints, initCount, restoreCount,
                  folded >>

\* App::run, line 78: the flush fails; `?` returns the error from run.
FlushFail ==
  /\ mpc = "flush"
  /\ mpc' = "restore"
  /\ result' = "Err"
  /\ UNCHANGED << spc, lpc, chan, rxAlive, running, latest_mem, free_memory,
                  key_event, frame, screen, term, batch, preMetric,
                  emitted, ticks, paints, initCount, restoreCount,
                  folded >>

\* A variant of TickSleep for a loop that tests running before the pause
\* only: after the pause it draws again.
TickSleepThenDraw ==
  /\ mpc = "sleep"
  /\ mpc' = "draw"
  /\ UNCHANGED << spc, lpc, chan, rxAlive, running, latest_mem, free_memory,
                  key_event, frame, screen, term, result, batch, preMetric,
                  emitted, ticks, paints, initCount, restoreCount,
                  folded >>

\* App::run, line 79: the 100 ms pause ends.
TickSleep ==
  /\ mpc = "sleep"
  /\ mpc' = "check"
  /\ UNCHANGED << spc, lpc, chan, rxAlive, running, latest_mem, free_memory,
                  key_event, frame, screen, term, result, batch, preMetric,
                  emitted, ticks, paints, initCount, restoreCount,
                  folded >>

\* main, line 30: ratatui::restore().
Restore ==
  /\ mpc = "restore"
  /\ mpc' = "return"
  /\ term' = "restored"
  /\ restoreCount' = restoreCount + 1
  /\ UNCHANGED << spc, lpc, chan, rxAlive, running, latest_mem, free_memory,
                  key_event, frame, screen, result, batch, preMetric,
                  emitted, ticks, paints, initCount,
                  folded >>

\* main, lines 31-32: main returns (or unwinds); its locals are dropped,
\* event_rx among them.
MainReturn ==
  /\ mpc = "return"
  /\ mpc' = "exit"
  /\ rxAlive' = FALSE
  /\ UNCHANGED << spc, lpc, chan, running, latest_mem, free_memory, key_event,
                  frame, screen, term, result, batch, preMetric, emitted,
                  ticks, paints, initCount, restoreCount,
                  folded >>

\* The runtime ends the process after main: the other threads stop wherever
\* they are.
ProcessExit ==
  /\ mpc = "exit"
  /\ mpc' = "exited"
  /\ UNCHANGED << spc, lpc, chan, rxAlive, running, latest_mem, free_memory,
                  key_event, frame, screen, term, result, batch, preMetric,
                  emitted, ticks, paints, initCount, restoreCount,
                  folded >>

\* -------------------------------------------------------- sampler thread
\* handle_input_events, lines 43-44: refresh and read the free memory. While
\* the receiver lives the model lets at most MaxSamples values be produced.
SamplerSample ==
  /\ ProcAlive
  /\ spc = "sample"
  /\ Len(emitted) < MaxSamples \/ ~rxAlive
  /\ \E v \in MemValues : free_memory' = v
  /\ spc' = "send"
  /\ UNCHANGED << lpc, chan, rxAlive, key_event, emitted >>
  /\ UNCHANGED mainVars

\* A variant of SamplerSend that does not look at the result of send.
SamplerSendUnchecked ==
  /\ ProcAlive
  /\ spc = "send"
  /\ IF rxAlive
       THEN chan' = Append(chan, Memory(free_memory))
            /\ emitted' = Append(emitted, free_memory)
       ELSE UNCHANGED << chan, emitted >>
  /\ spc' = "sleep"
  /\ UNCHANGED << lpc, rxAlive, free_memory, key_event >>
  /\ UNCHANGED mainVars

\* handle_input_events, lines 45-47: send the sample; a send on a channel
\* whose receiver is gone returns Err without queueing, and the loop breaks.
SamplerSend ==
  /\ ProcAlive
  /\ spc = "send"
  /\ IF rxAlive
       THEN /\ chan' = Append(chan, Memory(free_memory))
            /\ emitted' = Append(emitted, free_memory)
            /\ spc' = "sleep"
       ELSE /\ UNCHANGED << chan, emitted >>
            /\ spc' = "done"
  /\ UNCHANGED << lpc, rxAlive, free_memory, key_event >>
  /\ UNCHANGED mainVars

\* handle_input_events, line 48: the 500 ms sleep ends.
SamplerSleep ==
  /\ ProcAlive
  /\ spc = "sleep"
  /\ spc' = "sample"
  /\ UNCHANGED << lpc, chan, rxAlive, free_memory, key_event, emitted >>
  /\ UNCHANGED mainVars

\* ------------------------------------------------------- listener thread
\* handle_key_events, line 35: the blocking read returns a key event.
ListenerReadKey ==
  /\ ProcAlive
  /\ lpc = "read"
  /\ \E k \in KeyEvents : key_event' = k
  /\ lpc' = "send"
  /\ UNCHANGED << spc, chan, rxAlive, free_memory, emitted >>
  /\ UNCHANGED mainVars

\* handle_key_events, lines 35-38: the read returns an event that is not a
\* key event (a resize); the `if let` does not match and the function returns.
ListenerReadOther ==
  /\ ProcAlive
  /\ lpc = "read"
  /\ lpc' = "done"
  /\ UNCHANGED << spc, chan, rxAlive, free_memory, key_event, emitted >>
  /\ UNCHANGED mainVars

\* handle_key_events, line 35: the read returns Err; unwrap panics and the
\* thread ends (a panic in a spawned thread does not end the process).
ListenerReadErr ==
  /\ ProcAlive
  /\ lpc = "read"
  /\ lpc' = "panicked_read"
  /\ UNCHANGED << spc, chan, rxAlive, free_memory, key_event, emitted >>
  /\ UNCHANGED mainVars

\* handle_key_events, lines 36-38: send the key; the function then returns.
\* A send on a channel whose receiver is gone returns Err and unwrap panics.
ListenerSend ==
  /\ ProcAlive
  /\ lpc = "send"
  /\ IF rxAlive
       THEN chan' = Append(chan, Input(key_event)) /\ lpc' = "done"
       ELSE chan' = chan /\ lpc' = "panicked_send"
  /\ UNCHANGED << spc, rxAlive, free_memory, key_event, emitted >>
  /\ UNCHANGED mainVars

\* ------------------------------------------------------- specifications
MainNext ==
  \/ SpawnSampler \/ SpawnListener \/ Install \/ InitOk \/ InitPanic
  \/ RunEnter \/ LoopCheck \/ DrawBegin \/ DrawFailBefore \/ DrainRecv
  \/ DrainEnd \/ Paint \/ FlushOk \/ FlushFail \/ TickSleep \/ Restore
  \/ MainReturn \/ ProcessExit

SamplerNext == SamplerSample \/ SamplerSend \/ SamplerSleep

ListenerNext ==
  ListenerReadKey \/ ListenerReadOther \/ ListenerReadErr \/ ListenerSend

Next == MainNext \/ SamplerNext \/ ListenerNext

Spec == Init /\ [][Next]_vars

\* The operating system schedules every runnable thread: a thread that can
\* take a step eventually takes one. The listener's read is not included, it
\* may block forever.
FairSpec ==
  /\ Init /\ [][Next]_vars
  /\ WF_vars(MainNext)
  /\ WF_vars(SamplerSend \/ SamplerSleep)
  /\ WF_vars(ListenerSend)

\* ================================================================ claims
\* Helpers the properties are stated with.

\* The value of the last Memory event of a batch, scanning from its end; pre
\* when the batch holds none.
RECURSIVE LastMemory(_, _)
LastMemory(pre, b) ==
  IF b = << >> THEN pre
  ELSE IF b[Len(b)].type = "Memory" THEN Some(b[Len(b)].mem)
  ELSE LastMemory(pre, SubSeq(b, 1, Len(b) - 1))

\* The key codes the specification names as quitting.
QuitCodes == { [tag |-> "Esc", ch |-> ""], [tag |-> "Char", ch |-> "q"] }

\* The step at hand receives an event from the channel.
Receives == chan # << >> /\ batch' = Append(batch, Head(chan))

\* Positions of the main thread inside the loop of App::run.
LoopPcs == {"check", "draw", "drain", "paint", "flush", "sleep"}
\* Positions of the main thread after App::run has returned.
AfterLoopPcs == {"restore", "return", "exit", "exited"}

\* C1: last-write-wins fold. At every point of a drain, and so when it ends,
\* latest_mem is the value of the last Memory event received by the drain, or
\* what it was before the drain when none was received; and whatever it holds
\* is a value some Memory event carried.
LastWriteWins ==
  /\ latest_mem = LastMemory(preMetric, batch)
  /\ latest_mem # None => \E i \in 1..Len(emitted) : emitted[i] = latest_mem[1]

\* C1 witness: a drain has ended whose batch held two different samples.
LastWriteWinsWitness ==
  /\ mpc = "paint"
  /\ Len(batch) = 2
  /\ batch[1].type = "Memory" /\ batch[2].type = "Memory"
  /\ batch[1].mem # batch[2].mem
  /\ latest_mem = Some(batch[2].mem)

\* C2: quit predicate. A step that consumes an Input event leaves running
\* false exactly when it was false already or the key code is Esc or
\* Char('q'), whatever the modifiers; any other key, Char('Q') included,
\* leaves running and latest_mem unchanged.
QuitPredicate ==
  [][ (Receives /\ Head(chan).type = "Input") =>
        /\ running' = (running /\ Head(chan).key.code \notin QuitCodes)
        /\ Head(chan).key.code \notin QuitCodes => UNCHANGED appVars ]_vars

\* C2 witness: an uppercase Q was consumed and the application still runs.
QuitPredicateWitness ==
  /\ mpc = "paint"
  /\ running
  /\ \E i \in 1..Len(batch) :
        /\ batch[i].type = "Input"
        /\ batch[i].key.code = [tag |-> "Char", ch |-> "Q"]
        /\ batch[i].key.modifiers = "SHIFT"

\* C3: running is monotonic. It is true at the first test of the loop, and no
\* step of any thread takes it from false to true.
RunningMonotonic ==
  /\ []((mpc = "check" /\ ticks = "none") => running)
  /\ [][ running = FALSE => running' = FALSE ]_vars

\* C3 witness: the loop has ended with running false after the quit key and a
\* later sample were both consumed.
RunningMonotonicWitness ==
  /\ running = FALSE
  /\ mpc = "exited"
  /\ \E i, j \in 1..Len(batch) :
        i < j /\ batch[i].type = "Input" /\ batch[j].type = "Memory"

\* C4, as stated: once running is false no event changes latest_mem.
NoFoldAfterQuit ==
  [][ running = FALSE => latest_mem' = latest_mem ]_vars

\* C4, amended: once running is false and the drain that consumed the quit
\* key has ended, no event is received any more and running and latest_mem
\* stay as they are; while that drain is still going on, an event that
\* follows the quit key is folded like any other (a Memory event overwrites
\* latest_mem) and never sets running again.
NoDrainAfterQuitTick ==
  [][ /\ (running = FALSE /\ mpc # "drain") =>
           (mpc' # "drain" /\ batch' = batch /\ UNCHANGED appVars)
      /\ (running = FALSE /\ Receives) =>
           /\ running' = FALSE
           /\ Head(chan).type = "Memory" =>
                latest_mem' = Some(Head(chan).mem) ]_vars

\* C4 witness: the loop has ended on the quit key, a sample that followed the
\* key in the same batch was folded, and an event sent later is still queued.
NoDrainAfterQuitTickWitness ==
  /\ running = FALSE
  /\ mpc = "restore"
  /\ chan # << >>
  /\ Len(batch) = 2
  /\ batch[1].type = "Input" /\ batch[2].type = "Memory"
  /\ latest_mem = Some(batch[2].mem)

\* C5: the listener reads again after every key it has forwarded. As long as
\* the receiver lives, the step that sends an Input event takes the listener
\* back to its blocking read.
ListenerReadsAgain ==
  [][ (lpc = "send" /\ rxAlive /\ lpc' # lpc) => lpc' = "read" ]_vars

\* An Input event carrying a quit key is queued in the channel.
QuitQueued ==
  \E i \in 1..Len(chan) :
     chan[i].type = "Input" /\ chan[i].key.code \in QuitCodes

\* C6, as stated: whenever a quit key is queued while the loop runs with
\* running true, running eventually becomes false and the loop terminates.
QuitAlwaysStops ==
  (mpc \in LoopPcs /\ running /\ QuitQueued)
     ~> (running = FALSE /\ mpc \in AfterLoopPcs)

\* C6, amended: whenever a quit key is queued while the loop runs with
\* running true, the loop eventually terminates: either running has become
\* false, or terminal.draw has returned an error and the loop ended with it.
QuitOrDrawErrorStops ==
  (mpc \in LoopPcs /\ running /\ QuitQueued)
     ~> (mpc \in AfterLoopPcs /\ (running = FALSE \/ result = "Err"))

\* C6 witness: the loop has returned Ok on a quit key that was queued between
\* two samples.
QuitOrDrawErrorStopsWitness ==
  /\ mpc = "restore" /\ result = "Ok" /\ running = FALSE
  /\ Len(batch) = 3
  /\ batch[1].type = "Memory"
  /\ batch[2].type = "Input" /\ batch[2].key.code \in QuitCodes
  /\ batch[3].type = "Memory"

\* C7: prompt exit. Once running is false and the drain that made it so has
\* ended, the loop starts no further tick: the main thread never draws,
\* drains or paints again beyond the paint of that tick, the pause of that
\* tick is followed by the loop test, and the loop test leaves the loop with
\* Ok.
PromptExit ==
  [][ (running = FALSE /\ mpc # "drain" /\ mpc' # mpc) =>
        /\ mpc' \notin {"draw", "drain", "paint"}
        /\ mpc = "sleep" => mpc' = "check"
        /\ mpc = "check" => (mpc' = "restore" /\ result' = "Ok") ]_vars

\* C7 witness: the main thread is in the pause of the tick whose drain
\* consumed the quit key, with events still queued behind it.
PromptExitWitness ==
  /\ running = FALSE
  /\ mpc = "sleep"
  /\ chan # << >>

\* The text the panel must show for each value the sampler can report.
DecimalText(v) == CASE v = 9 -> "9" [] v = 2048 -> "2048" [] v = 0 -> "0"

\* The frame the specification asks for: no panel when nothing is set, else
\* the "Memory Info" panel with the decimal text of the value.
ExpectedFrame(lm) ==
  IF lm = None THEN None
  ELSE Some([title |-> "Memory Info", text |-> DecimalText(lm[1])])

\* C8: rendering shows the state after the same tick's drain. Once render has
\* painted, the frame holds a panel iff latest_mem is set, the panel shows
\* the decimal text of latest_mem, and latest_mem is the last sample this
\* tick's drain received (or the earlier value if it received none); the
\* frame flushed to the terminal is that frame.
RenderAfterDrain ==
  /\ mpc \in {"flush", "sleep"} =>
       /\ frame = ExpectedFrame(latest_mem)
       /\ frame = ExpectedFrame(LastMemory(preMetric, batch))
       /\ (frame = None) = (latest_mem = None)
  /\ mpc = "sleep" => screen = frame

\* C8 witness: the first sample ever consumed is on the screen in the tick
\* that drained it.
RenderAfterDrainWitness ==
  /\ mpc = "sleep"
  /\ preMetric = None
  /\ batch # << >>
  /\ screen = Some([title |-> "Memory Info", text |-> "2048"])

\* The order in which handle_input_events moves through its loop.
SamplerCycle ==
  { << "unborn", "sample" >>, << "sample", "send" >>, << "send", "sleep" >>,
    << "sleep", "sample" >>, << "send", "done" >> }

\* C9: sampler shutdown protocol. The sampler cycles sample -> send -> pause;
\* it has left its loop only if the receiver is gone; a send is never
\* blocked; a send with the receiver alive queues the sample and goes on,
\* a send with the receiver gone queues nothing and ends the loop; and once
\* the loop has ended the sampler stays ended and no event is queued.
SamplerShutdown ==
  /\ [](spc = "done" => ~rxAlive)
  /\ []((spc = "send" /\ ProcAlive) => ENABLED SamplerSend)
  /\ [][ spc' # spc => << spc, spc' >> \in SamplerCycle ]_vars
  /\ [][ (spc = "send" /\ spc' # spc) =>
           IF rxAlive
             THEN spc' = "sleep" /\ chan' = Append(chan, Memory(free_memory))
             ELSE spc' = "done" /\ chan' = chan /\ emitted' = emitted ]_vars
  /\ [][ spc = "done" =>
           (spc' = "done" /\ chan' = chan /\ emitted' = emitted) ]_vars

\* C9 witness: after sending a sample the sampler met a failed send and left
\* its loop before the process ended.
SamplerShutdownWitness ==
  /\ spc = "done"
  /\ mpc = "exit"
  /\ emitted # << >>

\* C10: a failed send ends the listener thread silently: the listener is
\* never in the state of having panicked on its send.
ListenerSendFailureIsSilent == lpc # "panicked_send"

\* C11: producer failure is process-fatal. Once the listener's read has
\* returned an error, the process eventually ends with the terminal out of
\* raw mode and a result other than Ok: the loop does not go on ticking.
ProducerFailureIsFatal ==
  (lpc = "panicked_read")
     ~> (mpc = "exited" /\ term # "raw" /\ result # "Ok")

\* C12: terminal acquisition and release bracket the loop. init and restore
\* each happen at most once and restore never without init; every tick runs
\* between them with the terminal in raw mode; whenever an execution that
\* initialized the terminal has left main's call of run, by Ok or by a draw
\* error, restore has run exactly once; after an error no tick runs, and the
\* result of run stays the result of the process.
TerminalBracketsLoop ==
  /\ [](/\ initCount <= 1 /\ restoreCount <= initCount
        /\ ticks # "none" => initCount = 1
        /\ mpc \in LoopPcs =>
             (initCount = 1 /\ restoreCount = 0 /\ term = "raw")
        /\ mpc = "restore" => (restoreCount = 0 /\ ENABLED Restore)
        /\ (initCount = 1 /\ mpc \in {"return", "exit", "exited"}) =>
             (restoreCount = 1 /\ term = "restored")
        /\ (initCount = 1 /\ mpc \in AfterLoopPcs) => result \in {"Ok", "Err"}
        /\ result = "Ok" => running = FALSE
        /\ result \in {"Ok", "Err"} => mpc \in AfterLoopPcs)
  /\ [][ (result # "none") => (result' = result) ]_vars

\* C12 witness: the process has ended on a draw error after at least one
\* tick, with the terminal initialized once and restored once.
TerminalBracketsLoopWitness ==
  /\ mpc = "exited"
  /\ result = "Err"
  /\ ticks # "none"
  /\ initCount = 1 /\ restoreCount = 1 /\ term = "restored"

\* The values of the Memory events of a sequence of events, in order.
RECURSIVE MemSeq(_)
MemSeq(q) ==
  IF q = << >> THEN << >>
  ELSE IF Head(q).type = "Memory" THEN << Head(q).mem >> \o MemSeq(Tail(q))
  ELSE MemSeq(Tail(q))

\* C13: per-producer FIFO with exactly-once consumption. The samples folded
\* so far are a prefix of the samples the sampler has sent, in the order
\* sent; the samples still queued are exactly the rest, in order (none
\* lost, duplicated or overtaken); and latest_mem is the newest folded
\* sample, so it never goes back to a sample sent before one it has held.
FifoExactlyOnce ==
  /\ Len(folded) <= Len(emitted)
  /\ folded = SubSeq(emitted, 1, Len(folded))
  /\ folded \o MemSeq(chan) = emitted
  /\ latest_mem = IF folded = << >> THEN None ELSE Some(folded[Len(folded)])

\* C13 witness: two different samples were folded by two different drains
\* and the second is the one held.
FifoExactlyOnceWitness ==
  /\ Len(folded) = 2
  /\ folded[1] # folded[2]
  /\ Len(MemSeq(batch)) = 1
  /\ latest_mem = Some(emitted[2])

\* C14: the loop never blocks on a producer. Wherever the main thread stands
\* in a tick, its next step (loop test, draw, receive or end of drain, paint,
\* flush, end of pause) is enabled, whatever the channel holds and wherever
\* the sampler and the listener are.
LoopNeverBlocks ==
  /\ mpc = "check" => ENABLED LoopCheck
  /\ mpc = "draw" => ENABLED DrawBegin
  /\ mpc = "drain" => ENABLED (DrainRecv \/ DrainEnd)
  /\ mpc = "paint" => ENABLED Paint
  /\ mpc = "flush" => ENABLED FlushOk
  /\ mpc = "sleep" => ENABLED TickSleep

\* C14 witness: in a later tick the drain finds the channel empty while the
\* listener is still blocked in its read.
LoopNeverBlocksWitness ==
  /\ mpc = "drain"
  /\ chan = << >>
  /\ batch = << >>
  /\ lpc = "read"
  /\ running
  /\ ticks = "later"

\* C15: the App is mutated only by the drain. A step taken while the main
\* thread is not draining, or while the channel is empty, leaves running and
\* latest_mem unchanged, and so does every step of the sampler and of the
\* listener.
StateMutatedOnlyByDrain ==
  [][ /\ (mpc # "drain" \/ chan = << >>) => UNCHANGED appVars
      /\ (spc' # spc \/ lpc' # lpc) => UNCHANGED appVars
      /\ (chan' # chan /\ Len(chan') > Len(chan)) => UNCHANGED appVars ]_vars

\* C15 witness: with a sample held, a later drain found the channel empty
\* and the tick went on through paint and flush to its pause, after both
\* producers had taken steps.
StateMutatedOnlyByDrainWitness ==
  /\ mpc = "sleep"
  /\ batch = << >>
  /\ latest_mem # None
  /\ ticks = "later"
  /\ spc = "sleep"
  /\ lpc = "done"

\* The for loop of App::render applied to a whole batch, first event first.
RECURSIVE FoldSeq(_, _)
FoldSeq(app, b) ==
  IF b = << >> THEN app ELSE FoldSeq(FoldEvent(app, Head(b)), Tail(b))

\* Every reordering of a batch that keeps its Memory events in their order.
Rearrangements(b) ==
  LET n == Len(b)
      perms == { f \in [1..n -> 1..n] :
                   \A i, j \in 1..n : f[i] = f[j] => i = j }
  IN { b2 \in { [i \in 1..n |-> b[f[i]]] : f \in perms } :
         MemSeq(b2) = MemSeq(b) }

\* A batch holds an Input event with a quit key.
HasQuit(b) ==
  \E i \in 1..Len(b) : b[i].type = "Input" /\ b[i].key.code \in QuitCodes

\* C16: the fold does not depend on cross-producer order. A drain starts with
\* running true; when it has ended, folding any reordering of its batch that
\* keeps the samples in order gives the state the App is in; running is false
\* iff the batch holds a quit key, and latest_mem is the last sample of the
\* batch wherever the key sits.
FoldOrderIndependent ==
  /\ (mpc = "drain" /\ batch = << >>) => running
  /\ mpc = "paint" =>
       /\ \A b2 \in Rearrangements(batch) :
             FoldSeq(<< TRUE, preMetric >>, b2) = << running, latest_mem >>
       /\ running = ~HasQuit(batch)
       /\ latest_mem = LastMemory(preMetric, batch)

\* C16 witness: a drain has ended whose batch held the quit key in front of
\* two different samples.
FoldOrderIndependentWitness ==
  /\ mpc = "paint"
  /\ Len(batch) = 3
  /\ batch[1].type = "Input" /\ batch[1].key.code \in QuitCodes
  /\ batch[2].type = "Memory" /\ batch[3].type = "Memory"
  /\ batch[2].mem # batch[3].mem
  /\ latest_mem = Some(batch[3].mem)

\* The newest sample folded so far, as an Option.
NewestFolded == IF folded = << >> THEN None ELSE Some(folded[Len(folded)])

\* A tick has put on the screen the i-th sample sent or one sent after it.
Shown(i) ==
  /\ mpc = "sleep"
  /\ Len(folded) >= i
  /\ screen = ExpectedFrame(Some(emitted[Len(folded)]))

\* C17: display freshness. Once the sampler has queued its i-th sample, a
\* tick eventually shows that sample or a later one, unless the loop ends;
\* and what a tick paints is always the newest sample folded by then, the
\* samples folded before it in the same drain being painted by no tick.
DisplayFreshness ==
  /\ \A i \in 1..MaxSamples :
        (Len(emitted) >= i) ~> (Shown(i) \/ mpc \in AfterLoopPcs)
  /\ []((mpc \in {"flush", "sleep"}) =>
          frame = ExpectedFrame(NewestFolded))
  /\ [][ (screen' # screen) => (screen' = ExpectedFrame(NewestFolded)) ]_vars

\* C17 witness: two samples were folded by one drain and the screen shows the
\* second; the first was never shown.
DisplayFreshnessWitness ==
  /\ mpc = "sleep"
  /\ ticks = "first"
  /\ Len(MemSeq(batch)) = 2
  /\ batch[1].mem # batch[Len(batch)].mem
  /\ batch[Len(batch)].type = "Memory" /\ batch[1].type = "Memory"
  /\ screen = ExpectedFrame(Some(batch[Len(batch)].mem))

\* The listener has sent its key event.
KeySent == lpc = "done" /\ key_event # NoKey

\* An event sequence holds the Input event the listener sent.
HoldsSentKey(q) == \E i \in 1..Len(q) : q[i] = Input(key_event)

\* A quit key is queued and no tick has begun.
QuitBeforeFirstTick ==
  ticks = "none" /\ QuitQueued /\ mpc \notin AfterLoopPcs

\* The first tick is draining with a quit key queued, or has received one.
QuitInFirstTick ==
  /\ ticks = "first"
  /\ (mpc = "drain" /\ QuitQueued) \/ HasQuit(batch)

\* C18: events sent before the first tick are not lost. Until the first tick
\* begins nothing is received, and every event sent is queued; during the
\* first tick every event sent is received or queued, and when the first
\* drain ends its batch holds every event sent so far. A quit key
\* queued before the first tick stays queued until that tick, is received by
\* its drain, and no second tick begins: if the loop then returns Ok it has
\* made exactly one drain and one paint.
PreTickEventsKept ==
  /\ [](ticks = "none" =>
          /\ batch = << >> /\ folded = << >>
          /\ MemSeq(chan) = emitted
          /\ KeySent => HoldsSentKey(chan))
  /\ [](ticks = "first" =>
          /\ MemSeq(batch \o chan) = emitted
          /\ KeySent => HoldsSentKey(batch \o chan))
  /\ [][ (ticks = "first" /\ mpc = "drain" /\ mpc' = "paint") =>
           /\ chan = << >>
           /\ MemSeq(batch') = emitted
           /\ KeySent => HoldsSentKey(batch') ]_vars
  /\ [][ (QuitBeforeFirstTick \/ QuitInFirstTick) =>
           \/ QuitBeforeFirstTick' \/ QuitInFirstTick'
           \/ (QuitBeforeFirstTick /\ mpc' \in AfterLoopPcs
                 /\ result' \in {"Err", "Panic"}) ]_vars
  /\ []((QuitInFirstTick /\ mpc \in AfterLoopPcs /\ result = "Ok") =>
          (paints = "first" /\ running = FALSE))

\* C18 witness: a sample and the quit key were both received by the first
\* drain, and the process has ended with Ok after that one tick.
PreTickEventsKeptWitness ==
  /\ mpc = "exited" /\ result = "Ok"
  /\ ticks = "first" /\ paints = "first"
  /\ Len(batch) = 2
  /\ batch[1].type = "Memory"
  /\ batch[2].type = "Input" /\ batch[2].key.code \in QuitCodes
  /\ screen # None

\* The step at hand is the paint of a tick.
PaintStep == mpc = "paint" /\ mpc' = "flush"

\* C19: latest_mem is set once and then stays set. It is unset from the
\* initial state until the first Memory event has been received, set in every
\* state after that, no step returns it to unset, and once a tick has painted
\* the panel every later paint paints the panel too.
LatestMetricStaysSet ==
  /\ [](folded = << >> => latest_mem = None)
  /\ [](folded # << >> => latest_mem # None)
  /\ [][ (latest_mem # None) => (latest_mem' # None) ]_vars
  /\ [][ (frame # None /\ PaintStep) => (frame' # None) ]_vars

\* C19 witness: a later tick whose drain received nothing has painted the
\* panel again, after an earlier tick had put the panel on the screen.
LatestMetricStaysSetWitness ==
  /\ mpc = "flush" /\ paints = "later"
  /\ batch = << >>
  /\ screen # None
  /\ frame # None
  /\ latest_mem # None
====
